---- MODULE Spec2Model ----
(***************************************************************************)
(* ActionMesh worker: the in-memory job registry (worker/job_store.py),    *)
(* the HTTP handlers and the background execution process_job              *)
(* (worker/main.py), and the wrapper around the external transformation    *)
(* (worker/actionmesh_wrapper.py).                                         *)
(*                                                                         *)
(* Scheduling.  Every handler of main.py is a coroutine on one asyncio     *)
(* event loop; a coroutine runs without interruption between two awaits.   *)
(* process_job has one await, asyncio.to_thread(run_actionmesh, ...), so   *)
(* it is three steps: ProcessStart (lines 108-147, up to the await), the   *)
(* worker thread running run_actionmesh (ToolReturn, or ToolHang when the  *)
(* child process never exits), and ProcessFinish (lines 149-176).          *)
(*                                                                         *)
(* Specifications.  Spec is the service of main.py; FairSpec adds the     *)
(* scheduling of the background work; SweepSpec is submission, execution   *)
(* and removal with the retention sweep and the clock; StoreSpec is the    *)
(* registry called with any arguments, UpdateSpec its create and update    *)
(* alone, ListSpec its list_jobs; LockSpec is JobStore.create called from  *)
(* several threads and ReaderSpec adds threads in update and in            *)
(* get_job_status; StagedSpec is the execution over an input directory     *)
(* that loses frames, for main.py and for the serverless handler           *)
(* (worker/handler.py); CollectSpec applies the output collectors to the   *)
(* listings of an output directory.                                        *)
(*                                                                         *)
(* Optional values (Python None) are sequences: <<>> is None and <<v>> is  *)
(* the value v.  A dict is a function whose DOMAIN is its key set.         *)
(***************************************************************************)
EXTENDS Integers, Sequences, FiniteSets, TLC

VARIABLES
    jobs,          \* JobStore._jobs: job_id -> Job
    fs,            \* JOBS_DIR on disk: job_id -> the job's working directory
    task,          \* per job id, the background task process_job(job_id, mode, blender_export)
    nextId,        \* the number of job ids uuid4() has handed out
    now,           \* datetime.utcnow(), in hours
    resp,          \* the answer to the last request or JobStore call
    BLENDER_PATH,  \* os.getenv("BLENDER_PATH"), read once at import
    lock,          \* JobStore._lock: the thread that holds it, or None
    thread         \* per thread, its position inside a JobStore method

vars == <<jobs, fs, task, nextId, now, resp, BLENDER_PATH, lock, thread>>

(***************************************************************************)
(* Bounds of the model.                                                    *)
(***************************************************************************)
MaxJobs == 2
MaxTime == 1
MaxThreads == 3
\* The longest error text a record is taken to hold; the transformation can
\* write one character more than this to its stderr.
MaxErrorLen == 64

JobIds == 1..MaxJobs
Threads == 1..MaxThreads

None == <<>>
Some(v) == <<v>>

(***************************************************************************)
(* worker/job_store.py                                                     *)
(***************************************************************************)
QUEUED == "queued"
RUNNING == "running"
FINISHED == "finished"
ERROR == "error"
JobStatus == {QUEUED, RUNNING, FINISHED, ERROR}

\* Mutant of Job: the record is born RUNNING.
JobBornRunning(job_id, t) ==
    [job_id |-> job_id, status |-> RUNNING, created_at |-> t, updated_at |-> t,
     error |-> None, outputs |-> None]

\* Job(job_id=job_id): the dataclass defaults.
Job(job_id, t) ==
    [job_id |-> job_id, status |-> QUEUED, created_at |-> t, updated_at |-> t,
     error |-> None, outputs |-> None]

\* Mutant of CreateRaises: the membership test is left out.
CreateNeverRaises(store, job_id) == FALSE

\* JobStore.create raises ValueError exactly when the id is a key of _jobs.
CreateRaises(store, job_id) == job_id \in DOMAIN store

\* JobStore.create, lines 75-76: _jobs[job_id] = Job(job_id=job_id).
JobStoreInsert(store, job_id, t) ==
    [k \in DOMAIN store \cup {job_id} |->
        IF k = job_id THEN Job(job_id, t) ELSE store[k]]

\* JobStore.create as one step: the registry afterwards.
JobStoreCreate(store, job_id, t) ==
    IF CreateRaises(store, job_id)
    THEN store
    ELSE JobStoreInsert(store, job_id, t)

\* JobStore.get: _jobs.get(job_id).
JobStoreGet(store, job_id) ==
    IF job_id \in DOMAIN store THEN Some(store[job_id]) ELSE None

\* Mutant of JobStoreUpdate: a field that was not provided is reset, and an
\* unknown id gets a record.
JobStoreUpdateOverwrites(store, job_id, status, error, outputs, t) ==
    [k \in DOMAIN store \cup {job_id} |->
        IF k # job_id THEN store[k]
        ELSE [(IF k \in DOMAIN store THEN store[k] ELSE Job(k, t))
                 EXCEPT !.status = IF status # None THEN status[1] ELSE @,
                        !.error = error,
                        !.outputs = outputs,
                        !.updated_at = t]]

\* Mutant of JobStoreUpdate: an update for an unknown id puts a record back.
JobStoreUpdateUpserts(store, job_id, status, error, outputs, t) ==
    [k \in DOMAIN store \cup {job_id} |->
        [(IF k \in DOMAIN store THEN store[k] ELSE Job(k, t))
            EXCEPT !.status = IF k = job_id /\ status # None THEN status[1] ELSE @,
                   !.error = IF k = job_id /\ error # None THEN error ELSE @,
                   !.outputs = IF k = job_id /\ outputs # None THEN outputs ELSE @,
                   !.updated_at = IF k = job_id THEN t ELSE @]]

\* JobStore.update: status, error and outputs are optional arguments; an
\* argument that is None leaves its field alone.
JobStoreUpdate(store, job_id, status, error, outputs, t) ==
    IF job_id \notin DOMAIN store
    THEN store
    ELSE [store EXCEPT ![job_id] =
            [@ EXCEPT !.status = IF status # None THEN status[1] ELSE @,
                      !.error = IF error # None THEN error ELSE @,
                      !.outputs = IF outputs # None THEN outputs ELSE @,
                      !.updated_at = t]]

\* Mutant of JobStoreDelete: the record is kept.
JobStoreDeleteKeeps(store, job_id) == store

\* JobStore.delete: del _jobs[job_id] when present.
JobStoreDelete(store, job_id) ==
    [k \in DOMAIN store \ {job_id} |-> store[k]]

\* Mutant of OldJobIds: only records that reached FINISHED or ERROR are swept.
OldJobIdsTerminal(store, max_age_hours, t) ==
    {k \in DOMAIN store : /\ store[k].created_at < t - max_age_hours
                          /\ store[k].status \in {FINISHED, ERROR}}

\* JobStore.cleanup_old_jobs: cutoff = utcnow() - timedelta(hours=max_age_hours).
OldJobIds(store, max_age_hours, t) ==
    {k \in DOMAIN store : store[k].created_at < t - max_age_hours}

JobStoreCleanup(store, max_age_hours, t) ==
    [k \in DOMAIN store \ OldJobIds(store, max_age_hours, t) |-> store[k]]

\* list(self._jobs.values()): the records in insertion order. Job ids are
\* labels given in order of insertion, so this is the order of the ids.
RECURSIVE Values(_, _)
Values(store, k) ==
    IF k > MaxJobs THEN <<>>
    ELSE (IF k \in DOMAIN store THEN <<store[k]>> ELSE <<>>) \o Values(store, k + 1)

\* [j for j in jobs if j.status == status], applied when status is truthy;
\* every member of JobStatus is a non-empty string.
RECURSIVE FilterStatus(_, _)
FilterStatus(seq, status) ==
    IF seq = <<>> THEN <<>>
    ELSE (IF status = None \/ Head(seq).status = status[1] THEN <<Head(seq)>> ELSE <<>>)
            \o FilterStatus(Tail(seq), status)

\* jobs.sort(key=created_at, reverse=True): a stable sort, so records created
\* at the same time keep their order.
InsertNewest(job, seq) ==
    LET n == Cardinality({i \in 1..Len(seq) : seq[i].created_at >= job.created_at})
    IN SubSeq(seq, 1, n) \o <<job>> \o SubSeq(seq, n + 1, Len(seq))

RECURSIVE SortNewestFirst(_)
SortNewestFirst(seq) ==
    IF seq = <<>> THEN <<>>
    ELSE InsertNewest(seq[Len(seq)], SortNewestFirst(SubSeq(seq, 1, Len(seq) - 1)))

\* jobs[:limit]: a negative limit counts from the end of the list.
SliceTo(seq, limit) ==
    LET stop == IF limit >= 0
                THEN (IF limit < Len(seq) THEN limit ELSE Len(seq))
                ELSE (IF Len(seq) + limit > 0 THEN Len(seq) + limit ELSE 0)
    IN SubSeq(seq, 1, stop)

\* JobStore.list_jobs
JobStoreList(store, status, limit) ==
    SliceTo(SortNewestFirst(FilterStatus(Values(store, 1), status)), limit)

(***************************************************************************)
(* File names.  A name is the sequence of its characters; Ord is the code  *)
(* point, which is what Python compares when it sorts paths of one         *)
(* directory.  A directory is the sequence of its entries in the order     *)
(* the operating system lists them (the order Path.glob yields them in).   *)
(***************************************************************************)
Ord(c) ==
    CASE c = "." -> 46
      [] c = "0" -> 48 [] c = "1" -> 49 [] c = "2" -> 50 [] c = "3" -> 51
      [] c = "4" -> 52 [] c = "5" -> 53 [] c = "6" -> 54 [] c = "7" -> 55
      [] c = "8" -> 56 [] c = "9" -> 57
      [] c = "M" -> 77 [] c = "P" -> 80
      [] c = "_" -> 95
      [] c = "a" -> 97 [] c = "b" -> 98 [] c = "d" -> 100 [] c = "e" -> 101
      [] c = "g" -> 103 [] c = "h" -> 104 [] c = "i" -> 105 [] c = "l" -> 108
      [] c = "m" -> 109 [] c = "n" -> 110 [] c = "p" -> 112 [] c = "r" -> 114
      [] c = "s" -> 115 [] c = "t" -> 116 [] c = "v" -> 118 [] c = "w" -> 119

\* str.__lt__: the first differing character decides, a proper prefix is smaller.
RECURSIVE StrLess(_, _)
StrLess(a, b) ==
    IF b = <<>> THEN FALSE
    ELSE IF a = <<>> THEN TRUE
    ELSE IF Head(a) = Head(b) THEN StrLess(Tail(a), Tail(b))
    ELSE Ord(Head(a)) < Ord(Head(b))

\* sorted(paths) by insertion; the names of one directory are distinct.
RECURSIVE Insert(_, _)
Insert(name, sortedNames) ==
    IF sortedNames = <<>> THEN <<name>>
    ELSE IF StrLess(name, Head(sortedNames)) THEN <<name>> \o sortedNames
    ELSE <<Head(sortedNames)>> \o Insert(name, Tail(sortedNames))

RECURSIVE Sorted(_)
Sorted(names) ==
    IF names = <<>> THEN <<>> ELSE Insert(Head(names), Sorted(Tail(names)))

\* Path.glob(prefix + "*" + suffix) on one name (case-sensitive, as on Linux).
GlobMatch(prefix, suffix, name) ==
    /\ Len(name) >= Len(prefix) + Len(suffix)
    /\ SubSeq(name, 1, Len(prefix)) = prefix
    /\ SubSeq(name, Len(name) - Len(suffix) + 1, Len(name)) = suffix

\* Path.glob over a directory: the matching entries, in listing order.
Glob(dir, prefix, suffix) ==
    SelectSeq(dir, LAMBDA name : GlobMatch(prefix, suffix, name))

MeshPrefix == <<"m", "e", "s", "h", "_">>
GlbSuffix == <<".", "g", "l", "b">>
Mp4Lower == <<".", "m", "p", "4">>
Mp4Upper == <<".", "M", "P", "4">>
AnimatedMeshName == <<"a", "n", "i", "m", "a", "t", "e", "d", "_", "m", "e", "s", "h", ".", "g", "l", "b">>

\* f"/outputs/{job_id}/{name}"
OutputUrl(job_id, name) == <<"outputs", job_id, name>>

\* process_job, "Find per-frame meshes": sorted(output_dir.glob("mesh_*.glb")).
PerFrameMeshes(job_id, dir) ==
    LET names == Sorted(Glob(dir, MeshPrefix, GlbSuffix))
    IN  [i \in 1..Len(names) |-> OutputUrl(job_id, names[i])]

\* process_job, "Check for animated mesh": (output_dir / "animated_mesh.glb").exists().
AnimatedMesh(job_id, dir) ==
    IF \E i \in 1..Len(dir) : dir[i] = AnimatedMeshName
    THEN Some(OutputUrl(job_id, AnimatedMeshName))
    ELSE None

\* process_job, "Check for preview video": for each of "*.mp4", "*.MP4" in turn the
\* first entry the glob yields is assigned and the inner loop is left; the outer
\* loop goes on, so a match of the later pattern replaces one of the earlier.
PreviewVideo(job_id, dir) ==
    LET lower == Glob(dir, <<>>, Mp4Lower)
        upper == Glob(dir, <<>>, Mp4Upper)
    IN  IF upper # <<>> THEN Some(OutputUrl(job_id, Head(upper)))
        ELSE IF lower # <<>> THEN Some(OutputUrl(job_id, Head(lower)))
        ELSE None

\* process_job, "Collect output files": the outputs dict.
CollectOutputs(job_id, dir) ==
    [per_frame_meshes |-> PerFrameMeshes(job_id, dir),
     animated_mesh |-> AnimatedMesh(job_id, dir),
     preview_video |-> PreviewVideo(job_id, dir)]

(***************************************************************************)
(* worker/actionmesh_wrapper.py: run_actionmesh, as called from the worker *)
(* thread of process_job.                                                  *)
(***************************************************************************)
\* _collect_outputs of actionmesh_wrapper.py, "Check for preview video": the
\* patterns in turn, each "prefix*suffix"; both loops are left at the first entry
\* any pattern yields.
WrapperPreviewPatterns ==
    <<[prefix |-> <<>>, suffix |-> Mp4Lower],
      [prefix |-> <<"r", "e", "n", "d", "e", "r">>, suffix |-> Mp4Lower],
      [prefix |-> <<"p", "r", "e", "v", "i", "e", "w">>, suffix |-> Mp4Lower]>>

RECURSIVE WrapperPreview(_, _)
WrapperPreview(dir, patterns) ==
    IF patterns = <<>> THEN None
    ELSE LET found == Glob(dir, Head(patterns).prefix, Head(patterns).suffix)
         IN  IF found # <<>> THEN Some(Head(found))
             ELSE WrapperPreview(dir, Tail(patterns))

\* _collect_outputs(output_path): the dict run_actionmesh returns (paths, not URLs).
WrapperCollect(dir) ==
    [per_frame_meshes |-> Sorted(Glob(dir, MeshPrefix, GlbSuffix)),
     animated_mesh |-> IF \E i \in 1..Len(dir) : dir[i] = AnimatedMeshName
                       THEN Some(AnimatedMeshName) ELSE None,
     preview_video |-> WrapperPreview(dir, WrapperPreviewPatterns)]

MinFrames == 16

\* The working directory JOBS_DIR / job_id: input is the number of *.png frames in
\* input/ (None: no such directory), output the listing of output/ (None: no such
\* directory), video whether input_video.mp4 exists, archive the member names of
\* meshes.zip (None: no such file).
JobDir(input, output, video) ==
    [input |-> input, output |-> output, video |-> video, archive |-> None]

\* str(JOBS_DIR / job_id / "input")
InputDirStr(job_id) == "/tmp/actionmesh_jobs/" \o ToString(job_id) \o "/input"

\* Path.mkdir(parents=True, exist_ok=True) on JOBS_DIR / job_id / "output".
MkdirOutput(disk, job_id) ==
    IF job_id \in DOMAIN disk
    THEN [disk EXCEPT ![job_id].output = IF @ = None THEN Some(<<>>) ELSE @]
    ELSE [k \in DOMAIN disk \cup {job_id} |->
            IF k = job_id THEN JobDir(None, Some(<<>>), FALSE) ELSE disk[k]]

\* The files a run adds to output/: the entries not there yet, after the old ones.
WriteFiles(disk, job_id, names) ==
    LET old == disk[job_id].output[1]
        fresh == SelectSeq(names, LAMBDA n : \A i \in 1..Len(old) : old[i] # n)
    IN  [disk EXCEPT ![job_id].output = Some(old \o fresh)]

Mesh000 == <<"m", "e", "s", "h", "_", "0", "0", "0", ".", "g", "l", "b">>
Mesh001 == <<"m", "e", "s", "h", "_", "0", "0", "1", ".", "g", "l", "b">>
PreviewMp4 == <<"p", "r", "e", "v", "i", "e", "w", ".", "m", "p", "4">>

\* What the external transformation may leave in output/.  animated_mesh.glb is
\* exported only when a Blender path is passed (run_actionmesh docstring).
ToolListings(blender_path) ==
    {<<>>, <<Mesh001, Mesh000>>, <<Mesh000, PreviewMp4>>}
    \cup (IF blender_path # None /\ blender_path # Some("")
          THEN {<<Mesh000, AnimatedMeshName>>} ELSE {})

\* The text the transformation leaves on stderr, or in its exception: nothing,
\* a short diagnostic, or MaxErrorLen + 1 characters.
RECURSIVE Repeat(_, _)
Repeat(text, n) == IF n = 0 THEN "" ELSE text \o Repeat(text, n - 1)
LongStderr == Repeat("x", MaxErrorLen + 1)
Stderrs == {"", "CUDA out of memory", LongStderr}

\* How the external transformation ends when it ends: the child process exits 0
\* or exits non-zero with some text on stderr (script present); run_inference
\* returns or raises (direct import).
ToolOutcomes(script, blender_path) ==
    IF script
    THEN [how : {"exit0"}, text : {""}, wrote : ToolListings(blender_path)]
         \cup [how : {"exit1"}, text : Stderrs, wrote : {<<>>}]
    ELSE [how : {"returns"}, text : {""}, wrote : ToolListings(blender_path)]
         \cup [how : {"raises"}, text : Stderrs, wrote : {<<>>}]

Returned == [kind |-> "ok", cause |-> "ok", msg |-> ""]
Raised(cause, msg) == [kind |-> "raise", cause |-> cause, msg |-> msg]

\* Mutant of InferenceFailed: the RuntimeError carries stderr alone.
InferenceFailedBare(stderr) == Raised("exit1", stderr)

\* subprocess.CalledProcessError -> RuntimeError(f"ActionMesh inference failed: {e.stderr}")
InferenceFailed(stderr) == Raised("exit1", "ActionMesh inference failed: " \o stderr)

\* Mutant of TooFewFrames: validate_frame_count never raises.
TooFewFramesNever(frame_count) == FALSE

\* validate_frame_count(frame_count, strict=True) raises ValueError.
TooFewFrames(frame_count) == frame_count < MinFrames

\* run_actionmesh(input_dir, output_dir, fast, low_ram, blender_path) for the job's
\* directories: what it returns or raises, and the disk afterwards.  script says
\* whether inference/video_to_animated_mesh.py exists, importable whether
\* actionmesh.inference can be imported, outcome how the transformation ends.
RunActionmesh(disk, job_id, script, importable, outcome) ==
    LET made == MkdirOutput(disk, job_id)
        input == made[job_id].input
    IN  IF input = None
        THEN [ret |-> Raised("ValueError",
                        "Input directory does not exist: " \o InputDirStr(job_id)),
              disk |-> made]
        ELSE IF TooFewFrames(input[1])
        THEN [ret |-> Raised("ValueError",
                        "Too few frames: " \o ToString(input[1])
                        \o ". ActionMesh requires at least 16 frames."),
              disk |-> made]
        ELSE IF ~script /\ ~importable
        THEN [ret |-> Raised("ImportError", "ActionMesh not found. Please either: ..."),
              disk |-> made]
        ELSE IF ~script
        THEN [ret |-> IF outcome.how = "returns" THEN Returned
                      ELSE Raised("raises", outcome.text),
              disk |-> WriteFiles(made, job_id, outcome.wrote)]
        ELSE [ret |-> IF outcome.how = "exit0" THEN Returned
                      ELSE InferenceFailed(outcome.text),
              disk |-> WriteFiles(made, job_id, outcome.wrote)]

\* Whether run_actionmesh gets as far as starting the external transformation.
ReachesTool(disk, job_id) ==
    /\ job_id \in DOMAIN disk
    /\ disk[job_id].input # None
    /\ disk[job_id].input[1] >= MinFrames

(***************************************************************************)
(* worker/main.py                                                          *)
(***************************************************************************)
DEFAULT == "default"
FAST == "fast"
FAST_LOW_RAM == "fast_low_ram"
ProcessingMode == {DEFAULT, FAST, FAST_LOW_RAM}

\* Mutant of get_mode_flags: DEFAULT answers the low-memory pair.
get_mode_flags_low(mode) ==
    IF mode = FAST THEN <<TRUE, FALSE>> ELSE <<TRUE, TRUE>>

\* get_mode_flags: <<fast, low_ram>>.
get_mode_flags(mode) ==
    IF mode = DEFAULT THEN <<FALSE, FALSE>>
    ELSE IF mode = FAST THEN <<TRUE, FALSE>>
    ELSE <<TRUE, TRUE>>

\* The background task of one job id.  pc: "idle" (never scheduled), "scheduled"
\* (add_task done, not started), "tool" (awaiting the worker thread), "hung" (the
\* child process never exits), "returned" (the thread is back, the coroutine not
\* yet resumed), "done" (process_job returned), "raised" (an exception left
\* process_job).  mode and blender_export are the arguments of process_job: mode
\* is kept until the worker thread is back, blender_export as long as call or ret
\* is.  call: the arguments run_actionmesh was started with.  ret: how
\* run_actionmesh ended.
Task(pc, mode, blender_export, call, ret) ==
    [pc |-> pc, mode |-> mode, blender_export |-> blender_export,
     call |-> call, ret |-> ret]

IdleTask == Task("idle", DEFAULT, FALSE, None, None)

Response(op, id, code, detail, body) ==
    [op |-> op, id |-> id, code |-> code, detail |-> detail, body |-> body]

\* JobResponse(job_id, status, error, outputs)
JobResponse(job_id, status, error, outputs) ==
    [job_id |-> job_id, status |-> status, error |-> error, outputs |-> outputs]

\* A thread calling JobStore.create(id).  pc: "idle", "call" (before the with
\* statement), "locked" (inside it, before the membership test), "inserting" (the
\* test found no record), "raising" (it found one), "returning" (the record is
\* inserted), "done".  result: None, or "ok" / "ValueError" once the call has
\* ended.  made: the Job the call returned.  A thread calling JobStore.update
\* keeps the arguments of the call in args; a thread that got a Job from
\* JobStore.get keeps in seen the attributes it has read from it so far.
Thread(pc, id, result, made) ==
    [pc |-> pc, id |-> id, result |-> result, made |-> made, args |-> None, seen |-> None]
IdleThread == Thread("idle", 0, None, None)

\* An empty dict.
EmptyDict == [k \in {} |-> k]

Init ==
    /\ jobs = EmptyDict
    /\ fs = EmptyDict
    /\ task = [j \in JobIds |-> IdleTask]
    /\ nextId = 0
    /\ now = 0
    /\ resp = Response("none", None, 0, "", None)
    /\ BLENDER_PATH \in {None, Some("/usr/bin/blender")}
    /\ lock = None
    /\ thread = [t \in Threads |-> IdleThread]

\* shutil.rmtree(job_dir)
Rmtree(disk, job_id) == [k \in DOMAIN disk \ {job_id} |-> disk[k]]

\* input_dir.mkdir(parents=True, exist_ok=True) for a fresh job id.
MkdirInput(disk, job_id) ==
    [k \in DOMAIN disk \cup {job_id} |->
        IF k = job_id THEN JobDir(Some(0), None, FALSE) ELSE disk[k]]

\* The requests POST /jobs is tried with.  src: nothing, an upload or a video_url;
\* name_ok: the upload's filename has a video extension; fetch_ok: the download
\* succeeds; size_ok: the content is within MAX_UPLOAD_SIZE; frames: the number of
\* frames ffmpeg extracts (None: ffmpeg fails).
FrameCounts == {0, 15, 16}
Upload(src, name_ok, fetch_ok, size_ok, frames) ==
    [src |-> src, name_ok |-> name_ok, fetch_ok |-> fetch_ok, size_ok |-> size_ok,
     frames |-> frames]
Uploads ==
    {Upload("none", TRUE, TRUE, TRUE, None),
     Upload("file", FALSE, TRUE, TRUE, None),
     Upload("file", TRUE, TRUE, FALSE, None),
     Upload("url", TRUE, FALSE, TRUE, None),
     Upload("url", TRUE, TRUE, FALSE, None),
     Upload("url", TRUE, TRUE, TRUE, None)}
    \cup {Upload(src, TRUE, TRUE, TRUE, Some(n)) : src \in {"file", "url"}, n \in FrameCounts}

\* POST /jobs, lines 210-214: neither file nor video_url.
CreateJobNoInput ==
    /\ resp' = Response("create", None, 400,
                        "Either file upload or video_url is required", None)
    /\ UNCHANGED <<jobs, fs, task, nextId, now, BLENDER_PATH, lock, thread>>

\* POST /jobs, lines 216-292, for the request u with form fields mode and
\* blender_export.
CreateJobWith(u, mode, blender_export) ==
    LET job_id == nextId + 1
        made == MkdirInput(fs, job_id)
        saved == [made EXCEPT ![job_id].video = TRUE]
        staged == [saved EXCEPT ![job_id].input = u.frames]
    IN  /\ nextId < MaxJobs
        /\ nextId' = job_id
        /\ UNCHANGED <<now, BLENDER_PATH, lock, thread>>
        /\ IF u.src = "file" /\ ~u.name_ok
           THEN \* HTTPException raised inside the try and re-raised as it is
                /\ resp' = Response("create", Some(job_id), 400, "Invalid file type", None)
                /\ fs' = made
                /\ UNCHANGED <<jobs, task>>
           ELSE IF u.src = "url" /\ ~u.fetch_ok
           THEN \* raise_for_status: except Exception removes job_dir
                /\ resp' = Response("create", Some(job_id), 500, "download failed", None)
                /\ fs' = fs
                /\ UNCHANGED <<jobs, task>>
           ELSE IF ~u.size_ok
           THEN \* the upload branch has opened input_video.mp4 for writing by now
                /\ resp' = Response("create", Some(job_id), 400, "File too large", None)
                /\ fs' = IF u.src = "file" THEN saved ELSE made
                /\ UNCHANGED <<jobs, task>>
           ELSE IF u.frames = None \/ u.frames = Some(0)
           THEN \* extract_frames_from_video raises RuntimeError
                /\ resp' = Response("create", Some(job_id), 500,
                                    IF u.frames = None THEN "ffmpeg failed"
                                    ELSE "No frames extracted from video", None)
                /\ fs' = fs
                /\ UNCHANGED <<jobs, task>>
           ELSE IF u.frames[1] < MinFrames
           THEN /\ resp' = Response("create", Some(job_id), 400, "Video too short", None)
                /\ fs' = fs
                /\ UNCHANGED <<jobs, task>>
           ELSE IF CreateRaises(jobs, job_id)
           THEN \* ValueError from job_store.create: except Exception
                /\ resp' = Response("create", Some(job_id), 500, "already exists", None)
                /\ fs' = fs
                /\ UNCHANGED <<jobs, task>>
           ELSE /\ jobs' = JobStoreCreate(jobs, job_id, now)
                /\ task' = [task EXCEPT ![job_id] =
                                Task("scheduled", mode, blender_export, None, None)]
                /\ fs' = staged
                /\ resp' = Response("create", Some(job_id), 200, "",
                                    Some(JobResponse(job_id, QUEUED, None, None)))

CreateJob ==
    \E u \in Uploads, mode \in ProcessingMode, blender_export \in BOOLEAN :
        IF u.src = "none" THEN CreateJobNoInput
        ELSE CreateJobWith(u, mode, blender_export)

\* Mutant of Call: a requested export always passes some Blender path.
CallDefaultBlender(job_id, mode, blender_export) ==
    [input_dir |-> job_id, output_dir |-> job_id,
     fast |-> get_mode_flags(mode)[1], low_ram |-> get_mode_flags(mode)[2],
     blender_path |-> IF blender_export THEN Some("blender") ELSE None]

\* The arguments of the run_actionmesh call of process_job, lines 134-147.
Call(job_id, mode, blender_export) ==
    [input_dir |-> job_id, output_dir |-> job_id,
     fast |-> get_mode_flags(mode)[1], low_ram |-> get_mode_flags(mode)[2],
     blender_path |-> IF blender_export THEN BLENDER_PATH ELSE None]

\* Mutant of StartJob: the RUNNING update is left out.
StartJobSkipped(store, job_id, t) == store

\* process_job, line 119.
StartJob(store, job_id, t) ==
    JobStoreUpdate(store, job_id, Some(RUNNING), None, None, t)

\* Mutant of FailJob: the except clause stores the error and not the status.
FailJobNoStatus(store, job_id, msg, t) ==
    JobStoreUpdate(store, job_id, None, Some(msg), None, t)

\* process_job, line 176: the except clause.
FailJob(store, job_id, msg, t) ==
    JobStoreUpdate(store, job_id, Some(ERROR), Some(msg), None, t)

\* process_job, line 172.
FinishJob(store, job_id, outputs, t) ==
    JobStoreUpdate(store, job_id, Some(FINISHED), None, Some(outputs), t)

\* process_job, lines 108-110: the record is gone, the task returns at once.
ProcessGone(j) ==
    /\ task[j].pc = "scheduled"
    /\ JobStoreGet(jobs, j) = None
    /\ task' = [task EXCEPT ![j] = Task("done", DEFAULT, FALSE, None, None)]
    /\ UNCHANGED <<jobs, fs, nextId, now, resp, BLENDER_PATH, lock, thread>>

\* process_job, line 115: output_dir.mkdir fails (disk full, read-only or
\* unwritable directory).  The call stands before the try, so the OSError leaves
\* process_job.
ProcessMkdirFails(j) ==
    /\ task[j].pc = "scheduled"
    /\ JobStoreGet(jobs, j) # None
    /\ task' = [task EXCEPT ![j] = Task("raised", DEFAULT, FALSE, None, None)]
    /\ UNCHANGED <<jobs, fs, nextId, now, resp, BLENDER_PATH, lock, thread>>

\* process_job, lines 108-147, up to the await: the RUNNING update, the frame
\* count validation, and the start of run_actionmesh in a worker thread.
ProcessStart(j) ==
    /\ task[j].pc = "scheduled"
    /\ JobStoreGet(jobs, j) # None
    /\ LET made == MkdirOutput(fs, j)
           running == StartJob(jobs, j, now)
           frame_count == IF made[j].input = None THEN 0 ELSE made[j].input[1]
       IN  /\ fs' = made
           /\ IF frame_count = 0
              THEN /\ jobs' = FailJob(running, j, "No frames found in input directory", now)
                   /\ task' = [task EXCEPT ![j] = Task("done", DEFAULT, FALSE, None, None)]
              ELSE IF frame_count < MinFrames
              THEN /\ jobs' = FailJob(running, j,
                                "Video too short: " \o ToString(frame_count)
                                \o " frames. ActionMesh requires at least 16 frames.", now)
                   /\ task' = [task EXCEPT ![j] = Task("done", DEFAULT, FALSE, None, None)]
              ELSE /\ jobs' = running
                   /\ task' = [task EXCEPT ![j] =
                                Task("tool", task[j].mode, task[j].blender_export,
                                     Some(Call(j, task[j].mode, task[j].blender_export)),
                                     None)]
    /\ UNCHANGED <<nextId, now, resp, BLENDER_PATH, lock, thread>>

\* The worker thread: run_actionmesh returns or raises.
ToolReturn(j) ==
    /\ task[j].pc = "tool"
    /\ \E script \in BOOLEAN, importable \in BOOLEAN :
         \E outcome \in ToolOutcomes(script, task[j].call[1].blender_path) :
           LET r == RunActionmesh(fs, j, script, importable, outcome)
           IN  /\ fs' = r.disk
               /\ task' = [task EXCEPT ![j] =
                                Task("returned", DEFAULT, task[j].blender_export,
                                     None, Some(r.ret))]
    /\ UNCHANGED <<jobs, nextId, now, resp, BLENDER_PATH, lock, thread>>

\* The worker thread: the external transformation never ends.  subprocess.run is
\* called without a timeout (actionmesh_wrapper.py, lines 223-229).
ToolHang(j) ==
    /\ task[j].pc = "tool"
    /\ ReachesTool(fs, j)
    /\ task' = [task EXCEPT ![j].pc = "hung"]
    /\ UNCHANGED <<jobs, fs, nextId, now, resp, BLENDER_PATH, lock, thread>>

\* process_job, lines 149-176, after the await: the exception of run_actionmesh is
\* caught, or the outputs are collected and the job is FINISHED.
ProcessFinish(j) ==
    /\ task[j].pc = "returned"
    /\ LET ret == task[j].ret[1]
       IN  jobs' = IF ret.kind = "raise"
                   THEN FailJob(jobs, j, ret.msg, now)
                   ELSE FinishJob(jobs, j, CollectOutputs(j, fs[j].output[1]), now)
    /\ task' = [task EXCEPT ![j].pc = "done", ![j].call = None]
    /\ UNCHANGED <<fs, nextId, now, resp, BLENDER_PATH, lock, thread>>

\* GET /jobs/{job_id}
GetJobStatus(j) ==
    /\ resp' = IF JobStoreGet(jobs, j) = None
               THEN Response("get", Some(j), 404, "Job not found", None)
               ELSE Response("get", Some(j), 200, "",
                        Some(JobResponse(jobs[j].job_id, jobs[j].status,
                                         jobs[j].error, jobs[j].outputs)))
    /\ UNCHANGED <<jobs, fs, task, nextId, now, BLENDER_PATH, lock, thread>>

\* sub in name (str.__contains__).
Contains(name, sub) ==
    \E i \in 1..(Len(name) - Len(sub) + 1) : SubSeq(name, i, i + Len(sub) - 1) = sub

\* download_output, "Determine media type".
MediaType(filename) ==
    IF GlobMatch(<<>>, GlbSuffix, filename) THEN "model/gltf-binary"
    ELSE IF GlobMatch(<<>>, Mp4Lower, filename) THEN "video/mp4"
    ELSE IF GlobMatch(<<>>, <<".", "z", "i", "p">>, filename) THEN "application/zip"
    ELSE "application/octet-stream"

\* Artifact names that lead out of output/: ".." is the job directory itself,
\* "../input_video.mp4" the video create_job saved, "a/b" a path below output/.
ParentName == <<".", ".">>
UpVideoName ==
    <<".", ".", "/", "i", "n", "p", "u", "t", "_", "v", "i", "d", "e", "o", ".", "m", "p", "4">>
SlashName == <<"a", "/", "b">>

\* (JOBS_DIR / job_id / "output" / filename).exists(): an entry of output/, or
\* what the path leads to when filename is not a plain name.
OutputExists(disk, job_id, filename) ==
    /\ job_id \in DOMAIN disk
    /\ disk[job_id].output # None
    /\ \/ \E i \in 1..Len(disk[job_id].output[1]) : disk[job_id].output[1][i] = filename
       \/ filename = ParentName
       \/ filename = UpVideoName /\ disk[job_id].video

\* FileResponse(path=file_path, filename=filename, media_type=media_type)
FileResponse(job_id, filename) ==
    [path |-> <<job_id, "output", filename>>, filename |-> filename,
     media_type |-> MediaType(filename)]

\* The artifact names asked for.
MeshesZipName == <<"m", "e", "s", "h", "e", "s", ".", "z", "i", "p">>
DownloadNames ==
    {Mesh000, Mesh001, PreviewMp4, ParentName, UpVideoName, SlashName, MeshesZipName}

\* Mutant of InvalidFilename: no name is turned down.
InvalidFilenameNever(filename) == FALSE

\* download_output, line 319: ".." in filename or "/" in filename
InvalidFilename(filename) ==
    Contains(filename, <<".", ".">>) \/ Contains(filename, <<"/">>)

\* Mutant of NotFinished: the status of the job is not looked at.
NotFinishedIgnored(store, job_id) == FALSE

\* download_output, line 315: job.status != JobStatus.FINISHED
NotFinished(store, job_id) == store[job_id].status # FINISHED

\* GET /outputs/{job_id}/{filename}
DownloadOutput(j, filename) ==
    /\ resp' =
         IF JobStoreGet(jobs, j) = None
         THEN Response("download", Some(j), 404, "Job not found", None)
         ELSE IF NotFinished(jobs, j)
         THEN Response("download", Some(j), 400, "Job not finished", None)
         ELSE IF InvalidFilename(filename)
         THEN Response("download", Some(j), 400, "Invalid filename", None)
         ELSE IF ~OutputExists(fs, j, filename)
         THEN Response("download", Some(j), 404, "File not found", None)
         ELSE Response("download", Some(j), 200, "", Some(FileResponse(j, filename)))
    /\ UNCHANGED <<jobs, fs, task, nextId, now, BLENDER_PATH, lock, thread>>

\* zipfile.ZipFile(zip_path, 'w') filled from sorted(output_dir.glob("mesh_*.glb")),
\* unless JOBS_DIR / job_id / "meshes.zip" is there already.
WriteArchive(disk, job_id) ==
    IF disk[job_id].archive # None THEN disk
    ELSE [disk EXCEPT ![job_id].archive =
            Some(IF disk[job_id].output = None THEN <<>>
                 ELSE Sorted(Glob(disk[job_id].output[1], MeshPrefix, GlbSuffix)))]

\* GET /outputs/{job_id}/meshes.zip
DownloadMeshesArchive(j) ==
    IF JobStoreGet(jobs, j) = None
    THEN /\ resp' = Response("archive", Some(j), 404, "Job not found", None)
         /\ UNCHANGED <<jobs, fs, task, nextId, now, BLENDER_PATH, lock, thread>>
    ELSE IF NotFinished(jobs, j)
    THEN /\ resp' = Response("archive", Some(j), 400, "Job not finished", None)
         /\ UNCHANGED <<jobs, fs, task, nextId, now, BLENDER_PATH, lock, thread>>
    ELSE /\ fs' = WriteArchive(fs, j)
         /\ resp' = Response("archive", Some(j), 200, "",
                             Some([path |-> <<j, MeshesZipName>>,
                                   filename |-> "meshes_" \o ToString(j) \o ".zip",
                                   media_type |-> "application/zip",
                                   members |-> fs'[j].archive[1]]))
         /\ UNCHANGED <<jobs, task, nextId, now, BLENDER_PATH, lock, thread>>

\* The routes under /outputs in the order of their @app.get decorators; a
\* request goes to the first route whose path pattern matches it.
OutputRoutes == <<"download_output", "download_meshes_archive">>
RouteMatches(route, filename) ==
    IF route = "download_output" THEN TRUE ELSE filename = MeshesZipName
RouteFor(filename) ==
    OutputRoutes[CHOOSE i \in 1..Len(OutputRoutes) :
                    /\ RouteMatches(OutputRoutes[i], filename)
                    /\ \A k \in 1..(i - 1) : ~RouteMatches(OutputRoutes[k], filename)]

\* GET /outputs/{job_id}/<filename> as the application answers it.
GetOutputs(j, filename) ==
    IF RouteFor(filename) = "download_meshes_archive"
    THEN DownloadMeshesArchive(j)
    ELSE DownloadOutput(j, filename)

\* Mutant of DeleteJob: the RUNNING check is left out.
DeleteJobUnchecked(j) ==
    /\ IF JobStoreGet(jobs, j) = None
       THEN /\ resp' = Response("delete", Some(j), 404, "Job not found", None)
            /\ UNCHANGED <<jobs, fs>>
       ELSE /\ fs' = Rmtree(fs, j)
            /\ jobs' = JobStoreDelete(jobs, j)
            /\ resp' = Response("delete", Some(j), 200, "deleted", None)
    /\ UNCHANGED <<task, nextId, now, BLENDER_PATH, lock, thread>>

\* DELETE /jobs/{job_id}
DeleteJob(j) ==
    /\ IF JobStoreGet(jobs, j) = None
       THEN /\ resp' = Response("delete", Some(j), 404, "Job not found", None)
            /\ UNCHANGED <<jobs, fs>>
       ELSE IF jobs[j].status = RUNNING
       THEN /\ resp' = Response("delete", Some(j), 400, "Cannot delete running job", None)
            /\ UNCHANGED <<jobs, fs>>
       ELSE /\ fs' = Rmtree(fs, j)
            /\ jobs' = JobStoreDelete(jobs, j)
            /\ resp' = Response("delete", Some(j), 200, "deleted", None)
    /\ UNCHANGED <<task, nextId, now, BLENDER_PATH, lock, thread>>

\* JobStore.cleanup_old_jobs(max_age_hours), the retention sweep.
MaxAges == {0, 1}
CleanupOldJobs(max_age_hours) ==
    /\ jobs' = JobStoreCleanup(jobs, max_age_hours, now)
    /\ resp' = Response("cleanup", None, Cardinality(OldJobIds(jobs, max_age_hours, now)),
                        "", None)
    /\ UNCHANGED <<fs, task, nextId, now, BLENDER_PATH, lock, thread>>

\* Time passes.
Tick ==
    /\ now < MaxTime
    /\ now' = now + 1
    /\ UNCHANGED <<jobs, fs, task, nextId, resp, BLENDER_PATH, lock, thread>>

Next ==
    \/ CreateJob
    \/ \E j \in JobIds : ProcessGone(j)
    \/ \E j \in JobIds : ProcessMkdirFails(j)
    \/ \E j \in JobIds : ProcessStart(j)
    \/ \E j \in JobIds : ToolReturn(j)
    \/ \E j \in JobIds : ToolHang(j)
    \/ \E j \in JobIds : ProcessFinish(j)
    \/ \E j \in JobIds : GetJobStatus(j)
    \/ \E j \in JobIds, filename \in DownloadNames : GetOutputs(j, filename)
    \/ \E j \in JobIds : DeleteJob(j)

Spec == Init /\ [][Next]_vars

\* The event loop resumes a coroutine that is ready, and a worker thread that was
\* started runs: the child process ends (ToolReturn) or never does (ToolHang).
TaskStep(j) ==
    \/ ProcessGone(j) \/ ProcessMkdirFails(j) \/ ProcessStart(j)
    \/ ToolReturn(j) \/ ToolHang(j) \/ ProcessFinish(j)

\* main.py never calls cleanup_old_jobs.  Submission, execution and removal with
\* the retention sweep run beside them, as time passes (the handlers that only
\* read are left out):
SweepNext ==
    \/ CreateJob
    \/ \E j \in JobIds : TaskStep(j)
    \/ \E j \in JobIds : DeleteJob(j)
    \/ \E h \in MaxAges : CleanupOldJobs(h)
    \/ Tick

SweepSpec == Init /\ [][SweepNext]_vars

FairSpec == Spec /\ \A j \in JobIds : WF_vars(TaskStep(j))

(***************************************************************************)
(* The registry on its own: JobStore called with arbitrary arguments.      *)
(* A call that returns answers code 0 with the returned value as body; a   *)
(* call that raises answers code 1 with the exception text as detail.      *)
(***************************************************************************)
SampleOutputs ==
    [per_frame_meshes |-> <<OutputUrl(1, Mesh000)>>, animated_mesh |-> None,
     preview_video |-> None]
StatusArgs == {None} \cup {Some(st) : st \in JobStatus}
ErrorArgs == {None, Some(""), Some("boom")}
OutputsArgs == {None, Some(SampleOutputs)}

StoreCreate(id) ==
    /\ jobs' = JobStoreCreate(jobs, id, now)
    /\ resp' = IF CreateRaises(jobs, id)
               THEN Response("JobStore.create", Some(id), 1, "ValueError: already exists", None)
               ELSE Response("JobStore.create", Some(id), 0, "", Some(Job(id, now)))
    /\ UNCHANGED <<fs, task, nextId, now, BLENDER_PATH, lock, thread>>

StoreGet(id) ==
    /\ resp' = Response("JobStore.get", Some(id), 0, "", JobStoreGet(jobs, id))
    /\ UNCHANGED <<jobs, fs, task, nextId, now, BLENDER_PATH, lock, thread>>

StoreUpdate(id, status, error, outputs) ==
    /\ jobs' = JobStoreUpdate(jobs, id, status, error, outputs, now)
    /\ resp' = Response("JobStore.update", Some(id), 0, "", JobStoreGet(jobs', id))
    /\ UNCHANGED <<fs, task, nextId, now, BLENDER_PATH, lock, thread>>

StoreDelete(id) ==
    /\ jobs' = JobStoreDelete(jobs, id)
    /\ resp' = Response("JobStore.delete", Some(id), 0, "", Some(id \in DOMAIN jobs))
    /\ UNCHANGED <<fs, task, nextId, now, BLENDER_PATH, lock, thread>>

StoreCleanup(max_age_hours) ==
    /\ jobs' = JobStoreCleanup(jobs, max_age_hours, now)
    /\ resp' = Response("JobStore.cleanup_old_jobs", None, 0, "",
                        Some(Cardinality(OldJobIds(jobs, max_age_hours, now))))
    /\ UNCHANGED <<fs, task, nextId, now, BLENDER_PATH, lock, thread>>

StoreNext ==
    \/ \E id \in JobIds : StoreCreate(id)
    \/ \E id \in JobIds : StoreGet(id)
    \/ \E id \in JobIds, status \in StatusArgs, error \in ErrorArgs, outputs \in OutputsArgs :
          StoreUpdate(id, status, error, outputs)
    \/ \E id \in JobIds : StoreDelete(id)
    \/ \E h \in MaxAges : StoreCleanup(h)
    \/ Tick

StoreSpec == Init /\ [][StoreNext]_vars

\* JobStore.update alone: records are created and then updated with every
\* combination of given and omitted arguments, at the same or a later time.
UpdateStatusArgs == {None, Some(RUNNING), Some(FINISHED)}

UpdateNext ==
    \/ \E id \in JobIds : StoreCreate(id)
    \/ \E id \in JobIds, status \in UpdateStatusArgs, error \in ErrorArgs,
          outputs \in OutputsArgs : StoreUpdate(id, status, error, outputs)
    \/ Tick

UpdateSpec == Init /\ [][UpdateNext]_vars

\* JobStore.list_jobs on a registry filled in the order of the ids: records are
\* created, move to another status, and are listed with and without a filter.
ListLimits == {-1, 0, 1, 100}

ListCreate(id) ==
    /\ \A k \in DOMAIN jobs : k < id
    /\ StoreCreate(id)

StoreList(status, limit) ==
    /\ resp' = Response("JobStore.list_jobs", None, 0, "",
                        Some(JobStoreList(jobs, status, limit)))
    /\ UNCHANGED <<jobs, fs, task, nextId, now, BLENDER_PATH, lock, thread>>

ListNext ==
    \/ \E id \in JobIds : ListCreate(id)
    \/ \E id \in JobIds, st \in {RUNNING, FINISHED} : StoreUpdate(id, Some(st), None, None)
    \/ \E status \in StatusArgs, limit \in ListLimits : StoreList(status, limit)
    \/ Tick

ListSpec == Init /\ [][ListNext]_vars

(***************************************************************************)
(* The registry called from several threads.  Every method body of         *)
(* JobStore runs inside "with self._lock:"; a thread is preempted between  *)
(* any two statements, so JobStore.create is four steps: entering the with *)
(* statement, the membership test, the insertion, and leaving the with     *)
(* statement (on return or on raise).                                      *)
(***************************************************************************)

\* threading.Lock.acquire returns once no thread holds the lock.
LockIgnored(l) == TRUE
LockAvailable(l) == l = None

\* A thread starts JobStore.create(job_id).
ThreadCall(t, job_id) ==
    /\ thread[t].pc = "idle"
    /\ thread' = [thread EXCEPT ![t] = Thread("call", job_id, None, None)]
    /\ UNCHANGED <<jobs, fs, task, nextId, now, resp, BLENDER_PATH, lock>>

\* with self._lock: the thread enters once it has the lock.
CreateAcquire(t) ==
    /\ thread[t].pc = "call"
    /\ LockAvailable(lock)
    /\ lock' = Some(t)
    /\ thread' = [thread EXCEPT ![t].pc = "locked"]
    /\ UNCHANGED <<jobs, fs, task, nextId, now, resp, BLENDER_PATH>>

\* if job_id in self._jobs: raise ValueError(...)
CreateCheck(t) ==
    /\ thread[t].pc = "locked"
    /\ thread' = [thread EXCEPT ![t].pc =
                     IF CreateRaises(jobs, thread[t].id) THEN "raising" ELSE "inserting"]
    /\ UNCHANGED <<jobs, fs, task, nextId, now, resp, BLENDER_PATH, lock>>

\* job = Job(job_id=job_id); self._jobs[job_id] = job
CreateInsert(t) ==
    /\ thread[t].pc = "inserting"
    /\ jobs' = JobStoreInsert(jobs, thread[t].id, now)
    /\ thread' = [thread EXCEPT ![t].pc = "returning",
                                ![t].made = Some(Job(thread[t].id, now))]
    /\ UNCHANGED <<fs, task, nextId, now, resp, BLENDER_PATH, lock>>

\* Leaving the with statement releases the lock, on return and on raise.
CreateRelease(t) ==
    /\ thread[t].pc \in {"raising", "returning"}
    /\ lock' = None
    /\ thread' = [thread EXCEPT ![t].pc = "done",
                                ![t].result = IF thread[t].pc = "raising"
                                              THEN Some("ValueError") ELSE Some("ok")]
    /\ UNCHANGED <<jobs, fs, task, nextId, now, resp, BLENDER_PATH>>

LockNext ==
    \/ \E t \in Threads, id \in JobIds : ThreadCall(t, id)
    \/ \E t \in Threads : CreateAcquire(t)
    \/ \E t \in Threads : CreateCheck(t)
    \/ \E t \in Threads : CreateInsert(t)
    \/ \E t \in Threads : CreateRelease(t)
    \/ Tick

LockSpec == Init /\ [][LockNext]_vars

(***************************************************************************)
(* JobStore.update and get_job_status on threads.  update holds the lock   *)
(* from its first statement to its return and assigns the attributes of    *)
(* the Job one statement at a time; get returns the Job object itself, and *)
(* get_job_status reads its attributes after get has released the lock.    *)
(***************************************************************************)
\* The update calls process_job makes: lines 119, 172 and 176.
PipelineUpdates ==
    {[status |-> Some(RUNNING), error |-> None, outputs |-> None],
     [status |-> Some(FINISHED), error |-> None, outputs |-> Some(SampleOutputs)],
     [status |-> Some(ERROR), error |-> Some("boom"), outputs |-> None]}

\* A thread starts JobStore.update(job_id, ...).
ThreadUpdate(t, job_id, args) ==
    /\ thread[t].pc = "idle"
    /\ thread' = [thread EXCEPT ![t] = [Thread("update", job_id, None, None)
                                           EXCEPT !.args = Some(args)]]
    /\ UNCHANGED <<jobs, fs, task, nextId, now, resp, BLENDER_PATH, lock>>

\* with self._lock: job = self._jobs.get(job_id); if not job: return None
UpdateAcquire(t) ==
    /\ thread[t].pc = "update"
    /\ LockAvailable(lock)
    /\ lock' = Some(t)
    /\ thread' = [thread EXCEPT ![t].pc =
                     IF thread[t].id \in DOMAIN jobs THEN "set_status" ELSE "unknown"]
    /\ UNCHANGED <<jobs, fs, task, nextId, now, resp, BLENDER_PATH>>

\* if status is not None: job.status = status
UpdateStatus(t) ==
    /\ thread[t].pc = "set_status"
    /\ jobs' = [jobs EXCEPT ![thread[t].id].status =
                   IF thread[t].args[1].status # None
                   THEN thread[t].args[1].status[1] ELSE @]
    /\ thread' = [thread EXCEPT ![t].pc = "set_error"]
    /\ UNCHANGED <<fs, task, nextId, now, resp, BLENDER_PATH, lock>>

\* if error is not None: job.error = error
UpdateError(t) ==
    /\ thread[t].pc = "set_error"
    /\ jobs' = [jobs EXCEPT ![thread[t].id].error =
                   IF thread[t].args[1].error # None THEN thread[t].args[1].error ELSE @]
    /\ thread' = [thread EXCEPT ![t].pc = "set_outputs"]
    /\ UNCHANGED <<fs, task, nextId, now, resp, BLENDER_PATH, lock>>

\* if outputs is not None: job.outputs = outputs
UpdateOutputs(t) ==
    /\ thread[t].pc = "set_outputs"
    /\ jobs' = [jobs EXCEPT ![thread[t].id].outputs =
                   IF thread[t].args[1].outputs # None THEN thread[t].args[1].outputs ELSE @]
    /\ thread' = [thread EXCEPT ![t].pc = "stamp"]
    /\ UNCHANGED <<fs, task, nextId, now, resp, BLENDER_PATH, lock>>

\* job.updated_at = datetime.utcnow(); return job, or return None for an
\* unknown id; leaving the with statement releases the lock.
UpdateRelease(t) ==
    /\ thread[t].pc \in {"stamp", "unknown"}
    /\ jobs' = IF thread[t].pc = "stamp"
               THEN [jobs EXCEPT ![thread[t].id].updated_at = now] ELSE jobs
    /\ lock' = None
    /\ thread' = [thread EXCEPT ![t].pc = "done",
                                ![t].result = IF thread[t].pc = "stamp"
                                              THEN Some("ok") ELSE Some("None")]
    /\ UNCHANGED <<fs, task, nextId, now, resp, BLENDER_PATH>>

\* A thread starts get_job_status(job_id).
ThreadGet(t, job_id) ==
    /\ thread[t].pc = "idle"
    /\ thread' = [thread EXCEPT ![t] = Thread("get", job_id, None, None)]
    /\ UNCHANGED <<jobs, fs, task, nextId, now, resp, BLENDER_PATH, lock>>

\* job = job_store.get(job_id): with self._lock: return self._jobs.get(job_id).
\* The lock is taken and released within the call; what comes back is the Job
\* object of the registry, or None and then 404.
GetReturn(t) ==
    /\ thread[t].pc = "get"
    /\ LockAvailable(lock)
    /\ thread' = IF thread[t].id \in DOMAIN jobs
                 THEN [thread EXCEPT ![t].pc = "read_status"]
                 ELSE [thread EXCEPT ![t].pc = "done", ![t].result = Some("404")]
    /\ UNCHANGED <<jobs, fs, task, nextId, now, resp, BLENDER_PATH, lock>>

\* JobResponse(job_id=job.job_id, status=job.status, ...
ReadStatus(t) ==
    /\ thread[t].pc = "read_status"
    /\ thread' = [thread EXCEPT ![t].pc = "read_error",
                                ![t].seen = Some(JobResponse(thread[t].id,
                                                jobs[thread[t].id].status, None, None))]
    /\ UNCHANGED <<jobs, fs, task, nextId, now, resp, BLENDER_PATH, lock>>

\* ... error=job.error, ...
ReadError(t) ==
    /\ thread[t].pc = "read_error"
    /\ thread' = [thread EXCEPT ![t].pc = "read_outputs",
                                ![t].seen = Some([@[1] EXCEPT !.error = jobs[thread[t].id].error])]
    /\ UNCHANGED <<jobs, fs, task, nextId, now, resp, BLENDER_PATH, lock>>

\* ... outputs=job.outputs): the response is complete.
ReadOutputs(t) ==
    /\ thread[t].pc = "read_outputs"
    /\ thread' = [thread EXCEPT ![t].pc = "done",
                                ![t].result = Some("200"),
                                ![t].seen = Some([@[1] EXCEPT !.outputs = jobs[thread[t].id].outputs])]
    /\ UNCHANGED <<jobs, fs, task, nextId, now, resp, BLENDER_PATH, lock>>

ReaderNext ==
    \/ \E t \in Threads, id \in JobIds : ThreadCall(t, id)
    \/ \E t \in Threads : CreateAcquire(t)
    \/ \E t \in Threads : CreateCheck(t)
    \/ \E t \in Threads : CreateInsert(t)
    \/ \E t \in Threads : CreateRelease(t)
    \/ \E t \in Threads, id \in JobIds, args \in PipelineUpdates : ThreadUpdate(t, id, args)
    \/ \E t \in Threads : UpdateAcquire(t)
    \/ \E t \in Threads : UpdateStatus(t)
    \/ \E t \in Threads : UpdateError(t)
    \/ \E t \in Threads : UpdateOutputs(t)
    \/ \E t \in Threads : UpdateRelease(t)
    \/ \E t \in Threads, id \in JobIds : ThreadGet(t, id)
    \/ \E t \in Threads : GetReturn(t)
    \/ \E t \in Threads : ReadStatus(t)
    \/ \E t \in Threads : ReadError(t)
    \/ \E t \in Threads : ReadOutputs(t)

ReaderSpec == Init /\ [][ReaderNext]_vars

(***************************************************************************)
(* worker/handler.py: the RunPod serverless handler.  It has its own       *)
(* extract_frames and run_actionmesh and keeps no job records: one call    *)
(* takes the job input and returns a dict, {"error": ...} or the outputs.  *)
(***************************************************************************)
HandlerMinFrames == 16
HandlerMeshLimit == 5

\* fast = mode in ["fast", "fast_low_ram"]; low_ram = mode == "fast_low_ram"
HandlerFlags(mode) == <<mode \in {"fast", "fast_low_ram"}, mode = "fast_low_ram">>

\* if frame_count < 16
HandlerTooShort(frame_count) == frame_count < HandlerMinFrames

\* mesh_files[:5]
Take(seq, n) == SubSeq(seq, 1, IF Len(seq) < n THEN Len(seq) ELSE n)

\* The outputs dict of the handler for the listing of its output directory.
HandlerOutputs(dir) ==
    [per_frame_meshes |-> Take(Sorted(Glob(dir, MeshPrefix, GlbSuffix)), HandlerMeshLimit),
     animated_mesh |-> IF \E i \in 1..Len(dir) : dir[i] = AnimatedMeshName
                       THEN Some(AnimatedMeshName) ELSE None,
     preview_video |-> IF Glob(dir, <<>>, Mp4Lower) = <<>> THEN None
                       ELSE Some(Glob(dir, <<>>, Mp4Lower)[1])]

\* The job input: video_base64 given or not, and the mode (None: key absent).
HandlerModes == {None} \cup {Some(m) : m \in ProcessingMode \cup {"turbo"}}
HandlerJob(video, mode) == [video_base64 |-> video, mode |-> mode]

\* One run of handler(job): what run_actionmesh was called with (None: it was not
\* called), and the dict returned.  frames is what extract_frames finds (None:
\* ffmpeg fails), outcome how the child process ends.
HandlerRun(job, frames, outcome) ==
    LET mode == IF job.mode = None THEN "fast_low_ram" ELSE job.mode[1]
        failed(msg) == [invoked |-> None, error |-> Some(msg), outputs |-> None]
    IN  IF ~job.video_base64 THEN failed("No video_base64 provided")
        ELSE IF frames = None THEN failed("ffmpeg failed: ")
        ELSE IF HandlerTooShort(frames[1])
        THEN failed("Video too short: " \o ToString(frames[1])
                    \o " frames. Need at least 16.")
        ELSE IF outcome.how = "exit1"
        THEN [invoked |-> Some(HandlerFlags(mode)),
              error |-> Some("ActionMesh failed: " \o outcome.text), outputs |-> None]
        ELSE [invoked |-> Some(HandlerFlags(mode)), error |-> None,
              outputs |-> Some(HandlerOutputs(outcome.wrote))]

\* handler(job): the input, what the environment did, and the run.
ServerlessHandler(job, frames, outcome) ==
    /\ resp' = Response("handler", None, 0, "",
                        Some([job |-> job, frames |-> frames,
                              run |-> HandlerRun(job, frames, outcome)]))
    /\ UNCHANGED <<jobs, fs, task, nextId, now, BLENDER_PATH, lock, thread>>

(***************************************************************************)
(* Executions over a staged input directory that loses frames.  JOBS_DIR   *)
(* is a directory under /tmp by default (main.py, line 26): between        *)
(* staging and execution, or before the worker thread validates the input, *)
(* files of input/ can be removed from outside the service.                *)
(***************************************************************************)
LostTo == {0, 15}

\* Frames of the staged input of job j are removed; n are left.
FramesLost(j, n) ==
    /\ task[j].pc \in {"scheduled", "tool"}
    /\ j \in DOMAIN fs /\ fs[j].input # None
    /\ n < fs[j].input[1]
    /\ fs' = [fs EXCEPT ![j].input = Some(n)]
    /\ UNCHANGED <<jobs, task, nextId, now, resp, BLENDER_PATH, lock, thread>>

\* A step of the API service (worker/main.py) over such a directory.
StagedApi ==
    \/ CreateJob
    \/ \E j \in JobIds, n \in LostTo : FramesLost(j, n)
    \/ \E j \in JobIds : ProcessGone(j)
    \/ \E j \in JobIds : ProcessMkdirFails(j)
    \/ \E j \in JobIds : ProcessStart(j)
    \/ \E j \in JobIds : ToolReturn(j)
    \/ \E j \in JobIds : ToolHang(j)
    \/ \E j \in JobIds : ProcessFinish(j)
    \/ \E j \in JobIds : DeleteJob(j)

\* A call of the serverless handler (worker/handler.py).
StagedHandler ==
    \E video \in BOOLEAN, mode \in HandlerModes,
       frames \in {None} \cup {Some(n) : n \in FrameCounts} :
        \E outcome \in ToolOutcomes(TRUE, None) :
            ServerlessHandler(HandlerJob(video, mode), frames, outcome)

\* A worker process runs one of the two programs: uvicorn with the app of
\* main.py, or runpod.serverless.start with the handler of handler.py.
StagedNext ==
    \/ resp.op # "handler" /\ StagedApi
    \/ resp.op \in {"none", "handler"} /\ StagedHandler

StagedSpec == Init /\ [][StagedNext]_vars

(***************************************************************************)
(* The two output collectors on their own: the collection of process_job   *)
(* (main.py, lines 149-169) and _collect_outputs (actionmesh_wrapper.py),  *)
(* applied to the listings an output directory can have.                   *)
(***************************************************************************)
MaxDirLen == 3

Mesh2 == <<"m", "e", "s", "h", "_", "2", ".", "g", "l", "b">>
Mesh10 == <<"m", "e", "s", "h", "_", "1", "0", ".", "g", "l", "b">>
MeshNoIndex == <<"m", "e", "s", "h", "_", "a", "l", "l", ".", "g", "l", "b">>
RenderMp4 == <<"r", "e", "n", "d", "e", "r", ".", "m", "p", "4">>
UpperMp4 == <<"v", "i", "e", "w", ".", "M", "P", "4">>

\* The file names an output directory is filled from.
OutputNames == {Mesh000, Mesh2, Mesh10, MeshNoIndex, AnimatedMeshName,
                PreviewMp4, RenderMp4, UpperMp4}

\* The directory listings: up to MaxDirLen distinct names in any listing order.
Listings ==
    {dir \in UNION {[1..n -> OutputNames] : n \in 0..MaxDirLen} :
        \A i, k \in 1..Len(dir) : i # k => dir[i] # dir[k]}

\* Both collectors are applied to one listing.
Collect(dir) ==
    /\ resp' = Response("collect", Some(1), 0, "",
                        Some([dir |-> dir,
                              api |-> CollectOutputs(1, dir),
                              wrapper |-> WrapperCollect(dir)]))
    /\ UNCHANGED <<jobs, fs, task, nextId, now, BLENDER_PATH, lock, thread>>

CollectNext == \E dir \in Listings : Collect(dir)

CollectSpec == Init /\ [][CollectNext]_vars

(***************************************************************************)
(* Properties.                                                             *)
(***************************************************************************)
Terminal == {FINISHED, ERROR}
IsIn(j, st) == j \in DOMAIN jobs /\ jobs[j].status = st
EmptyResult(outputs) ==
    /\ outputs.per_frame_meshes = <<>>
    /\ outputs.animated_mesh = None
    /\ outputs.preview_video = None

\* C1: a record is born QUEUED, and every change of a job's status is one of
\* QUEUED -> RUNNING, RUNNING -> FINISHED, RUNNING -> ERROR; so FINISHED and ERROR
\* are never left and FINISHED is entered from RUNNING only.
C1_StatusTransitions ==
    [][\A j \in JobIds :
         /\ (j \notin DOMAIN jobs /\ j \in DOMAIN jobs') => jobs'[j].status = QUEUED
         /\ (j \in DOMAIN jobs /\ j \in DOMAIN jobs' /\ jobs'[j].status # jobs[j].status)
              => <<jobs[j].status, jobs'[j].status>> \in
                   {<<QUEUED, RUNNING>>, <<RUNNING, FINISHED>>, <<RUNNING, ERROR>>}]_vars

C1_Witness == \E j, k \in JobIds : IsIn(j, FINISHED) /\ IsIn(k, ERROR)

\* C2: in every record, error and outputs are never both set, outputs is set only
\* with status FINISHED and error only with status ERROR.
C2_ResultErrorExclusive ==
    \A j \in DOMAIN jobs :
        /\ ~(jobs[j].error # None /\ jobs[j].outputs # None)
        /\ jobs[j].outputs # None => jobs[j].status = FINISHED
        /\ jobs[j].error # None => jobs[j].status = ERROR

C2_Witness ==
    \E j, k \in DOMAIN jobs :
        /\ jobs[j].status = FINISHED /\ jobs[j].outputs # None /\ jobs[j].error = None
        /\ jobs[k].status = ERROR /\ jobs[k].error # None /\ jobs[k].outputs = None

\* C3 (as claimed): no failure leaves process_job, and once process_job has ended
\* for a record that is still there, the record is FINISHED or ERROR.
C3_NoFailureEscapes ==
    \A j \in JobIds :
        /\ task[j].pc # "raised"
        /\ (task[j].pc \in {"done", "raised"} /\ j \in DOMAIN jobs)
             => jobs[j].status \in Terminal

\* C4 (as claimed): a job whose transformation returned normally and whose output
\* directory holds no recognizable artifact ends in ERROR, and no FINISHED record
\* carries an empty result.
C4_EmptyOutputIsError ==
    \A j \in DOMAIN jobs :
        /\ (/\ task[j].pc = "done"
            /\ task[j].ret = Some(Returned)
            /\ j \in DOMAIN fs
            /\ EmptyResult(CollectOutputs(j, fs[j].output[1])))
             => jobs[j].status = ERROR
        /\ jobs[j].status = FINISHED => ~EmptyResult(jobs[j].outputs[1])

\* C5: a job whose child process exited non-zero has, once process_job has ended,
\* status ERROR, a non-empty error string and no outputs.
C5_NonZeroExitIsError ==
    \A j \in DOMAIN jobs :
        (task[j].pc = "done" /\ task[j].ret # None /\ task[j].ret[1].cause = "exit1")
          => /\ jobs[j].status = ERROR
             /\ jobs[j].error # None
             /\ jobs[j].error[1] # ""
             /\ jobs[j].outputs = None

C5_Witness ==
    \E j \in DOMAIN jobs :
        /\ task[j].pc = "done" /\ task[j].ret # None /\ task[j].ret[1].cause = "exit1"
        /\ jobs[j].error = Some("ActionMesh inference failed: ")

\* C6 (as claimed): a job whose external transformation never returns does not
\* stay RUNNING for ever.
C6_HungJobLeavesRunning ==
    \A j \in JobIds : (task[j].pc = "hung") ~> ~IsIn(j, RUNNING)

\* C7 (as claimed): at most one job is RUNNING at a time, and a job leaves QUEUED
\* only when every job submitted before it is FINISHED or ERROR.
C7_OneAtATimeInOrder ==
    /\ Cardinality({j \in DOMAIN jobs : jobs[j].status = RUNNING}) <= 1
    /\ \A j, k \in DOMAIN jobs :
         (j < k /\ jobs[k].status # QUEUED) => jobs[j].status \in Terminal

\* C8: a DELETE of a RUNNING job is answered 400 and changes neither the registry
\* nor the disk.
C8_DeleteRunningRejected ==
    [][\A j \in JobIds :
         (DeleteJob(j) /\ IsIn(j, RUNNING))
           => (resp'.code = 400 /\ jobs' = jobs /\ fs' = fs)]_vars

C8_Witness ==
    \E j \in JobIds :
        /\ resp = Response("delete", Some(j), 400, "Cannot delete running job", None)
        /\ IsIn(j, RUNNING)
        /\ j \in DOMAIN fs

\* C9: a DELETE of a FINISHED or ERROR job removes its record and its working
\* directory; a removed id never comes back, and a status query for an id that is
\* not in the registry answers 404.
C9_DeleteTerminalRemoves ==
    [][\A j \in JobIds :
         /\ (DeleteJob(j) /\ (IsIn(j, FINISHED) \/ IsIn(j, ERROR)))
              => (j \notin DOMAIN jobs' /\ j \notin DOMAIN fs' /\ resp'.code = 200)
         /\ (j <= nextId /\ j \notin DOMAIN jobs) => j \notin DOMAIN jobs'
         /\ (GetJobStatus(j) /\ j \notin DOMAIN jobs) => resp'.code = 404]_vars

C9_Witness ==
    \E j \in JobIds :
        /\ resp = Response("get", Some(j), 404, "Job not found", None)
        /\ task[j].pc = "done" /\ task[j].ret # None
        /\ j \notin DOMAIN jobs /\ j \notin DOMAIN fs

\* C10: JobStore.create on an id that is present raises and leaves the whole
\* registry as it was.
C10_CreateExistingRaises ==
    [][\A id \in JobIds :
         (StoreCreate(id) /\ id \in DOMAIN jobs)
           => (resp'.code = 1 /\ jobs' = jobs)]_vars

C10_Witness ==
    \E id \in DOMAIN jobs :
        /\ resp.op = "JobStore.create" /\ resp.id = Some(id) /\ resp.code = 1
        /\ jobs[id].status = FINISHED /\ jobs[id].updated_at > jobs[id].created_at

\* The threads whose create(job_id) call has ended with the given result.
Ended(job_id, result) ==
    {t \in Threads : thread[t].id = job_id /\ thread[t].result = Some(result)}

\* The threads that have called create(job_id), ended or not.
Callers(job_id) == {t \in Threads : thread[t].pc # "idle" /\ thread[t].id = job_id}

\* C11: when several threads call JobStore.create with the same id, at most one
\* call ever succeeds; once all of them have ended exactly one has succeeded and
\* every other one has raised the already-exists error; and the record the
\* successful call inserted is still the one in the registry (no later create
\* has overwritten it).
C11_ConcurrentCreateOnce ==
    \A id \in JobIds :
        /\ Cardinality(Ended(id, "ok")) <= 1
        /\ \A t \in Ended(id, "ok") : id \in DOMAIN jobs /\ Some(jobs[id]) = thread[t].made
        /\ (Callers(id) # {} /\ \A t \in Callers(id) : thread[t].pc = "done")
              => /\ Cardinality(Ended(id, "ok")) = 1
                 /\ Callers(id) \ Ended(id, "ok") = Ended(id, "ValueError")

\* Three threads have called create with the same id at different times and
\* all have ended, one with the record and two with the error.
C11_Witness ==
    /\ \A t \in Threads : thread[t].pc = "done" /\ thread[t].id = 1
    /\ Cardinality(Ended(1, "ok")) = 1
    /\ Cardinality(Ended(1, "ValueError")) = 2
    /\ now > jobs[1].created_at

\* The executions whose run_actionmesh call has been made.
Invoked == {j \in JobIds : task[j].call # None \/ task[j].ret # None}

\* A step of POST /jobs that changes the state.  Every such step changes nextId
\* or the response, which is tested first.
Submits == (nextId' # nextId \/ (resp' # resp /\ resp'.op = "create")) /\ CreateJob

\* C12: a successful POST /jobs registers the new record as QUEUED, schedules
\* its execution and answers the job id with status QUEUED; no POST /jobs step
\* invokes the transformation; and a record becomes RUNNING only in the step
\* of its scheduled execution that goes on to invoke the transformation.
C12_SubmitOnlyQueues ==
    [][/\ (Submits /\ resp'.code = 200) =>
            LET j == nextId'
            IN  /\ j \notin DOMAIN jobs
                /\ j \in DOMAIN jobs' /\ jobs'[j].status = QUEUED
                /\ task'[j].pc = "scheduled" /\ task'[j].call = None
                /\ resp'.body = Some(JobResponse(j, QUEUED, None, None))
       /\ Submits => Invoked' = Invoked
       /\ \A j \in JobIds :
            (IsIn(j, RUNNING)' /\ ~IsIn(j, RUNNING)) =>
                /\ ~Submits
                /\ task[j].pc = "scheduled"
                /\ task'[j].pc = "tool"
      ]_vars

\* POST /jobs has just answered 200 for a job that is QUEUED and scheduled, and
\* an earlier job has been made RUNNING by its execution meanwhile.
C12_Witness ==
    /\ resp.op = "create" /\ resp.code = 200
    /\ resp.id = Some(2) /\ IsIn(2, QUEUED) /\ task[2].pc = "scheduled"
    /\ IsIn(1, RUNNING) /\ task[1].pc = "tool"

\* C14: with no BLENDER_PATH configured, an execution whose request asked for
\* the export calls run_actionmesh without a Blender path; if its record ends
\* in ERROR the error is the one run_actionmesh raised, and when run_actionmesh
\* returned the record is FINISHED with no animated mesh in its outputs.
C14_ExportDowngraded ==
    BLENDER_PATH = None =>
        \A j \in JobIds :
            (task[j].blender_export /\ j \in DOMAIN jobs) =>
                /\ task[j].call # None => task[j].call[1].blender_path = None
                /\ task[j].pc \in {"tool", "hung", "returned"} => IsIn(j, RUNNING)
                /\ IsIn(j, ERROR) =>
                      /\ task[j].ret # None /\ task[j].ret[1].kind = "raise"
                      /\ jobs[j].error = Some(task[j].ret[1].msg)
                /\ (task[j].pc = "done" /\ task[j].ret = Some(Returned)) =>
                      /\ IsIn(j, FINISHED)
                      /\ jobs[j].outputs[1].animated_mesh = None

\* A job submitted with blender_export while BLENDER_PATH is unset is FINISHED
\* with per-frame meshes and no animated mesh.
C14_Witness ==
    /\ BLENDER_PATH = None
    /\ task[1].blender_export /\ task[1].pc = "done"
    /\ IsIn(1, FINISHED)
    /\ jobs[1].outputs[1].per_frame_meshes # <<>>
    /\ jobs[1].outputs[1].animated_mesh = None

\* Whether the external transformation was started for the execution of job j.
ToolRan(j) ==
    \/ task[j].pc = "hung"
    \/ task[j].ret # None /\ task[j].ret[1].cause \in {"ok", "exit1", "raises"}

\* The error texts that tell of n frames being too few.
InsufficientFrames(n) ==
    {"No frames found in input directory",
     "Video too short: " \o ToString(n) \o " frames. ActionMesh requires at least 16 frames.",
     "Too few frames: " \o ToString(n) \o ". ActionMesh requires at least 16 frames.",
     "Video too short: " \o ToString(n) \o " frames. Need at least 16."}

\* C13: an execution that has ended over a staged input of fewer than 16 frames
\* has left its record in ERROR with a message telling of the frame count, and
\* the external transformation was not started for it; the serverless handler
\* given fewer than 16 frames returns such an error without calling
\* run_actionmesh.
C13_TooFewFramesIsError ==
    /\ \A j \in DOMAIN jobs :
          (task[j].pc = "done" /\ fs[j].input # None /\ fs[j].input[1] < 16) =>
              /\ IsIn(j, ERROR)
              /\ jobs[j].error # None
              /\ jobs[j].error[1] \in InsufficientFrames(fs[j].input[1])
              /\ ~ToolRan(j)
    /\ (/\ resp.op = "handler"
        /\ resp.body[1].job.video_base64
        /\ resp.body[1].frames # None
        /\ resp.body[1].frames[1] < 16) =>
              /\ resp.body[1].run.invoked = None
              /\ resp.body[1].run.error # None
              /\ resp.body[1].run.error[1] \in InsufficientFrames(resp.body[1].frames[1])

\* Job 1 ended in ERROR at the frame check of process_job and job 2 at the
\* check of run_actionmesh, each with 15 frames left.
C13_Witness ==
    /\ IsIn(1, ERROR) /\ task[1].pc = "done" /\ fs[1].input = Some(15)
    /\ task[1].ret = None
    /\ IsIn(2, ERROR) /\ task[2].pc = "done" /\ fs[2].input = Some(15)
    /\ task[2].ret # None

\* The knobs of each processing profile, <<speed, memory>>, as the
\* specification lists them.
ProfileKnobs(mode) ==
    CASE mode = "default" -> <<FALSE, FALSE>>
      [] mode = "fast" -> <<TRUE, FALSE>>
      [] mode = "fast_low_ram" -> <<TRUE, TRUE>>

\* C15: the fast and low_ram arguments process_job passes to run_actionmesh, and
\* those the serverless handler passes to its run_actionmesh, are the knobs of
\* the profile asked for, for each of the three profiles.
C15_ModeFlags ==
    /\ \A j \in JobIds :
          task[j].pc \in {"tool", "hung"} =>
              <<task[j].call[1].fast, task[j].call[1].low_ram>> = ProfileKnobs(task[j].mode)
    /\ (/\ resp.op = "handler"
        /\ resp.body[1].run.invoked # None
        /\ resp.body[1].job.mode \in {Some(m) : m \in ProcessingMode}) =>
              resp.body[1].run.invoked[1] = ProfileKnobs(resp.body[1].job.mode[1])

\* The API pipeline is running one job in profile FAST_LOW_RAM and one in
\* profile DEFAULT.
C15_Witness ==
    /\ task[1].pc = "tool" /\ task[1].mode = FAST_LOW_RAM
    /\ task[1].call[1].fast /\ task[1].call[1].low_ram
    /\ task[2].pc = "tool" /\ task[2].mode = DEFAULT
    /\ ~task[2].call[1].fast /\ ~task[2].call[1].low_ram

\* The characters of a per-frame mesh name between "mesh_" and ".glb".
IndexPart(name) == SubSeq(name, Len(MeshPrefix) + 1, Len(name) - Len(GlbSuffix))

IsDigit(c) == Ord(c) \in 48..57

\* Whether the name carries a numeric index, and the index it carries.
HasIndex(name) ==
    /\ IndexPart(name) # <<>>
    /\ \A i \in 1..Len(IndexPart(name)) : IsDigit(IndexPart(name)[i])

RECURSIVE DigitsValue(_)
DigitsValue(digits) ==
    IF digits = <<>> THEN 0
    ELSE 10 * DigitsValue(SubSeq(digits, 1, Len(digits) - 1))
         + (Ord(digits[Len(digits)]) - 48)

MeshIndex(name) == DigitsValue(IndexPart(name))

\* The file names of the collected items, of process_job and of _collect_outputs.
ApiItems == [i \in 1..Len(resp.body[1].api.per_frame_meshes) |->
                resp.body[1].api.per_frame_meshes[i][3]]
WrapperItems == resp.body[1].wrapper.per_frame_meshes

AscendingByIndex(names) ==
    \A i, k \in 1..Len(names) :
        (i < k /\ HasIndex(names[i]) /\ HasIndex(names[k])) =>
            MeshIndex(names[i]) <= MeshIndex(names[k])

\* C16: whatever per-frame mesh files the output directory holds, the collected
\* items are in ascending order of the numeric index in their names.
C16_ItemsByNumericIndex ==
    resp.op = "collect" => AscendingByIndex(ApiItems) /\ AscendingByIndex(WrapperItems)

\* C17: a file named mesh_<something>.glb whose <something> is not a number is
\* not among the collected items.
C17_MalformedNameSkipped ==
    resp.op = "collect" =>
        /\ \A i \in 1..Len(ApiItems) : HasIndex(ApiItems[i])
        /\ \A i \in 1..Len(WrapperItems) : HasIndex(WrapperItems[i])

\* The preview patterns of process_job, in order.
ApiPreviewPatterns ==
    <<[prefix |-> <<>>, suffix |-> Mp4Lower], [prefix |-> <<>>, suffix |-> Mp4Upper]>>

\* The first entry yielded by the earliest pattern that yields any.
RECURSIVE FirstMatch(_, _)
FirstMatch(dir, patterns) ==
    IF patterns = <<>> THEN None
    ELSE IF Glob(dir, Head(patterns).prefix, Head(patterns).suffix) # <<>>
    THEN Some(Head(Glob(dir, Head(patterns).prefix, Head(patterns).suffix)))
    ELSE FirstMatch(dir, Tail(patterns))

\* C18: the preview is the first file of the earliest preview pattern that
\* matches any file; a file of a later pattern never replaces it.
C18_PreviewFirstMatchWins ==
    resp.op = "collect" =>
        LET dir == resp.body[1].dir
            first == FirstMatch(dir, ApiPreviewPatterns)
        IN  /\ resp.body[1].api.preview_video =
                  (IF first = None THEN None ELSE Some(OutputUrl(1, first[1])))
            /\ resp.body[1].wrapper.preview_video = FirstMatch(dir, WrapperPreviewPatterns)

\* A step that leaves a new response of download_output: the steps of
\* GET /outputs/{id}/{artifact} that change the state are among these.
Downloaded == resp' # resp /\ resp'.op = "download"

\* An artifact name that passes the path check of download_output.
PlainName(filename) == ~Contains(filename, <<".", ".">>) /\ ~Contains(filename, <<"/">>)

Traverses(filename) ==
    \/ \E i \in 1..Len(filename) : filename[i] = "/"
    \/ filename = <<".", ".">>

\* C21: GET /outputs/{id}/{artifact} with a name that holds a path separator or
\* is a parent-directory component is refused and streams nothing; and whatever
\* is streamed is an entry of the output directory of the job asked for.
C21_NoPathTraversal ==
    [][Downloaded => \A j \in JobIds, filename \in DownloadNames :
          DownloadOutput(j, filename) =>
              /\ Traverses(filename) => resp'.code \in {400, 404} /\ resp'.body = None
              /\ resp'.code = 200 =>
                    /\ resp'.body[1].path = <<j, "output", filename>>
                    /\ ~Traverses(filename)
                    /\ \E i \in 1..Len(fs[j].output[1]) : fs[j].output[1][i] = filename
      ]_vars

\* A FINISHED job whose saved video is still in its working directory has just
\* been asked for an artifact name leading out of output/ and has refused it.
C21_Witness ==
    /\ resp.op = "download" /\ resp.id = Some(1)
    /\ resp.code = 400 /\ resp.detail = "Invalid filename"
    /\ IsIn(1, FINISHED) /\ OutputExists(fs, 1, UpVideoName)

\* A JobStore.update call has just answered.
Updated ==
    /\ resp'.op = "JobStore.update"
    /\ resp' # resp \/ jobs' # jobs

\* C22: JobStore.update on a known id changes exactly the provided fields among
\* status, error and outputs, keeps the others, the id, created_at and every
\* other record, and sets updated_at to the current time; on an unknown id it
\* returns None and leaves the registry as it was.
C22_UpdateFrame ==
    [][Updated =>
          \A id \in {resp'.id[1]}, status \in UpdateStatusArgs, error \in ErrorArgs,
             outputs \in OutputsArgs :
             StoreUpdate(id, status, error, outputs) =>
                IF id \in DOMAIN jobs
                THEN /\ DOMAIN jobs' = DOMAIN jobs
                     /\ \A k \in DOMAIN jobs \ {id} : jobs'[k] = jobs[k]
                     /\ jobs'[id].job_id = jobs[id].job_id
                     /\ jobs'[id].created_at = jobs[id].created_at
                     /\ jobs'[id].status =
                           IF status = None THEN jobs[id].status ELSE status[1]
                     /\ jobs'[id].error =
                           IF error = None THEN jobs[id].error ELSE error
                     /\ jobs'[id].outputs =
                           IF outputs = None THEN jobs[id].outputs ELSE outputs
                     /\ jobs'[id].updated_at = now
                     /\ resp'.body = Some(jobs'[id])
                ELSE jobs' = jobs /\ resp'.body = None
      ]_vars

\* An update that gave only a status has answered at a later time than the
\* record's creation: the error set before is kept, updated_at has moved, and
\* the other record is still as created.
C22_Witness ==
    /\ resp.op = "JobStore.update" /\ resp.id = Some(1) /\ resp.body # None
    /\ DOMAIN jobs = {1, 2}
    /\ jobs[1].status = FINISHED /\ jobs[1].error = Some("boom")
    /\ jobs[1].outputs = None
    /\ jobs[1].created_at = 0 /\ jobs[1].updated_at = 1
    /\ jobs[2] = Job(2, 0)

\* A JobStore.list_jobs call has just answered.
Listed == resp' # resp /\ resp'.op = "JobStore.list_jobs"

\* C23: JobStore.list_jobs returns only records with the status asked for (all
\* records without a filter), newest created first, never more records than
\* limit (none for a limit of 0 or below), and leaves the registry as it was.
C23_ListCapped ==
    [][Listed =>
          \A status \in StatusArgs, limit \in ListLimits :
             StoreList(status, limit) =>
                LET result == resp'.body[1]
                IN /\ \A i \in 1..Len(result) :
                         /\ result[i] \in {jobs[k] : k \in DOMAIN jobs}
                         /\ status # None => result[i].status = status[1]
                   /\ \A i, k \in 1..Len(result) :
                         i < k => result[i].created_at >= result[k].created_at
                   /\ Len(result) <= (IF limit < 0 THEN 0 ELSE limit)
                   /\ jobs' = jobs
      ]_vars

\* A JobStore.cleanup_old_jobs call has just answered.
Swept ==
    /\ resp'.op = "JobStore.cleanup_old_jobs"
    /\ resp' # resp \/ jobs' # jobs

\* C24: cleanup_old_jobs(max_age_hours) removes exactly the records created
\* before now - max_age_hours, in whatever status they are, leaves the others as
\* they were, and returns the number of records removed.
C24_SweepExact ==
    [][Swept =>
          \A h \in MaxAges :
             StoreCleanup(h) =>
                /\ DOMAIN jobs' = {k \in DOMAIN jobs : ~(jobs[k].created_at < now - h)}
                /\ \A k \in DOMAIN jobs' : jobs'[k] = jobs[k]
                /\ resp'.body = Some(Cardinality(DOMAIN jobs) - Cardinality(DOMAIN jobs'))
      ]_vars

\* A sweep has removed one record and kept the other, which was created exactly
\* at the cutoff and is still RUNNING.
C24_Witness ==
    /\ resp.op = "JobStore.cleanup_old_jobs" /\ resp.body = Some(1)
    /\ DOMAIN jobs = {2}
    /\ jobs[2].created_at = now /\ jobs[2].status = RUNNING

\* C25: the error text stored on a job in ERROR is never longer than a fixed
\* maximum, however long the diagnostic text of the transformation is.
C25_ErrorBounded ==
    \A j \in DOMAIN jobs :
        jobs[j].status = ERROR /\ jobs[j].error # None =>
            Len(jobs[j].error[1]) <= MaxErrorLen

\* Some request under /outputs has just been answered.
OutputsAnswered == resp' # resp /\ resp'.op \in {"download", "archive"}

\* C26: GET /outputs/{job_id}/meshes.zip for a FINISHED job is answered by
\* download_meshes_archive with a ZIP of the job's per-frame meshes, not by the
\* single-artifact route.
C26_ArchiveRouteServes ==
    [][OutputsAnswered =>
          \A j \in JobIds :
             IsIn(j, FINISHED) /\ GetOutputs(j, MeshesZipName) =>
                /\ resp'.op = "archive"
                /\ resp'.code = 200
                /\ resp'.body[1].media_type = "application/zip"
                /\ resp'.body[1].members =
                      [i \in 1..Len(jobs[j].outputs[1].per_frame_meshes) |->
                          jobs[j].outputs[1].per_frame_meshes[i][3]]
      ]_vars

\* C27: a thread that got a Job from JobStore.get while another thread is inside
\* JobStore.update for the same id never reads a half-updated record: the
\* response it builds is never FINISHED without outputs, nor ERROR without error.
C27_NoTornRead ==
    \A t \in Threads :
        thread[t].result = Some("200") =>
            /\ thread[t].seen[1].status = FINISHED => thread[t].seen[1].outputs # None
            /\ thread[t].seen[1].status = ERROR => thread[t].seen[1].error # None

\* Job j was submitted and its record is no longer in the registry.
Removed(j) == task[j].pc # "idle" /\ j \notin DOMAIN jobs

\* C28: a record that was removed, by DELETE /jobs/{job_id} or by the retention
\* sweep, never comes back: the steps its execution still takes leave the
\* registry as it is, and when the record went while the job was still waiting
\* to start, the execution ends at once, with no working directory made and the
\* external transformation not invoked.
C28_RemovedStaysRemoved ==
    [][\A j \in JobIds :
          Removed(j) =>
             /\ j \notin DOMAIN jobs'
             /\ task'[j] # task[j] => jobs' = jobs
             /\ (task[j].pc = "scheduled" /\ task'[j] # task[j]) =>
                   /\ task'[j].pc = "done"
                   /\ task'[j].call = None /\ task'[j].ret = None
                   /\ fs' = fs
      ]_vars

\* Job 1 was swept and its execution has ended with what the transformation
\* returned (its working directory is still there, so DELETE did not remove it);
\* job 2 was deleted while QUEUED and its execution has ended without a call.
C28_Witness ==
    /\ Removed(1) /\ task[1].pc = "done" /\ task[1].ret # None /\ 1 \in DOMAIN fs
    /\ Removed(2) /\ task[2].pc = "done" /\ task[2].ret = None /\ 2 \notin DOMAIN fs

\* C29: when POST /jobs has answered with an error, the registry holds no record
\* for the job id of that request and its working directory is gone.
C29_FailedSubmitLeavesNothing ==
    (resp.op = "create" /\ resp.code # 200 /\ resp.id # None) =>
        /\ resp.id[1] \notin DOMAIN jobs
        /\ resp.id[1] \notin DOMAIN fs

====
